---- MODULE Spec2Model ----
(***************************************************************************)
(* Graph construction of the two DWI merge workflows of qsiprep:           *)
(*   init_distortion_group_merge_wf  (workflows/dwi/distortion_group_merge.py) *)
(*   init_merge_and_denoise_wf       (workflows/dwi/merge.py)              *)
(* Each builder is a straight-line Python function; one action per         *)
(* statement group, in program order (pc).  A workflow that is returned is *)
(* then evaluated node by node in any order its connections allow.         *)
(* Python strings are sequences of one-character strings, so that          *)
(* str.lower, str.startswith, str.replace and + act on characters.         *)
(***************************************************************************)
EXTENDS Integers, Sequences, FiniteSets, TLC

VARIABLES
    pc,                       \* position in the builder / "returned" / "raised"
    error,                    \* exception that left the builder, "" if none
    nodes,                    \* names of the nodes created so far
    edges,                    \* connections <<src, src field, dst, dst field>>
    fanin,                    \* connections inputnode.<field> -> <merge node>.in<port>
    merging_strategy,         \* argument of init_distortion_group_merge_wf
    inputs_list,              \* argument of init_distortion_group_merge_wf
    undefined_slot,           \* the slot the caller leaves undefined, NoSlot if none
    sanitized_inputs,         \* local, line 73
    input_names,              \* local, lines 74-77
    input_num,                \* loop index of lines 94-106
    distortion_merger,        \* local, lines 109/114; Unbound until assigned
    dwi_files,                \* argument of init_merge_and_denoise_wf
    dwi_denoise_window,       \* argument of init_merge_and_denoise_wf
    denoise_before_combining, \* argument of init_merge_and_denoise_wf
    combine_all_dwis,         \* argument of init_merge_and_denoise_wf
    node_inputs,              \* <<node, field>> -> value set on / delivered to a node
    outputs,                  \* <<node, field>> -> value a finished node produced
    running,                  \* nodes that have started and not finished
    done,                     \* nodes that have finished
    denoised                  \* items of the denoise MapNode already processed

vars == <<pc, error, nodes, edges, fanin, merging_strategy, inputs_list,
          undefined_slot, sanitized_inputs, input_names, input_num,
          distortion_merger, dwi_files, dwi_denoise_window,
          denoise_before_combining, combine_all_dwis, node_inputs, outputs,
          running, done, denoised>>

\* ---------------------------------------------------------------- bounds
MaxGroups == 2
MaxFiles == 2

\* ------------------------------------------------------- Python strings
UpperCase == <<"A","B","C","D","E","F","G","H","I","J","K","L","M",
               "N","O","P","Q","R","S","T","U","V","W","X","Y","Z">>
LowerCase == <<"a","b","c","d","e","f","g","h","i","j","k","l","m",
               "n","o","p","q","r","s","t","u","v","w","x","y","z">>

LowerChar(c) ==
    IF \E i \in 1..26 : UpperCase[i] = c
    THEN LowerCase[CHOOSE i \in 1..26 : UpperCase[i] = c]
    ELSE c

\* str.lower()
Lower(s) == [i \in 1..Len(s) |-> LowerChar(s[i])]

\* str.startswith(prefix)
StartsWith(s, prefix) ==
    /\ Len(s) >= Len(prefix)
    /\ SubSeq(s, 1, Len(prefix)) = prefix

\* name.replace('-', '_')
Sanitize(name) == [i \in 1..Len(name) |-> IF name[i] = "-" THEN "_" ELSE name[i]]

\* the literals 'average' and 'concat' of lines 108 and 113
average == <<"a","v","e","r","a","g","e">>
concat == <<"c","o","n","c","a","t">>

\* the suffix literals of lines 75-76, in the order of the list
Suffixes == <<
    <<"_","i","m","a","g","e">>,
    <<"_","b","v","a","l">>,
    <<"_","b","v","e","c">>,
    <<"_","o","r","i","g","i","n","a","l","_","b","v","e","c">>,
    <<"_","b","0","_","r","e","f">>,
    <<"_","o","r","i","g","i","n","a","l","_","i","m","a","g","e">>,
    <<"_","r","a","w","_","c","o","n","c","a","t","e","n","a","t","e","d",
      "_","i","m","a","g","e">> >>

\* index into Suffixes of each stream
Streams == 1..7
\* "_original_bvec" is the fourth suffix
ORIGINAL_BVEC == 4

\* the Merge node each stream is connected to, lines 84-91 and 96-106
MergeNode == <<"merge_images", "merge_bval", "merge_bvec", "merge_original_bvec",
               "merge_b0_refs", "merge_original_image",
               "merge_raw_concatenated_image">>

\* the input of distortion_merger each Merge node feeds, lines 111 and 117-122
MergerPort == <<"dwi_files", "bval_files", "bvec_files", "original_bvec_files",
                "b0_refs", "bids_dwi_files", "raw_concatenated_files">>

Unbound == "<unbound>"
NoSlot == <<0, 0>>

\* ----------------------------------------------------------- input sets
Strategies == {
    average,
    <<"A","v","e","r","a","g","e">>,
    <<"A","V","E","R","A","G","E">>,
    <<"a","v","e","r","a","g","e","s">>,
    concat,
    <<"C","o","n","c","a","t">>,
    <<"c","o","n","c","a","t","e","n","a","t","e">>,
    <<"C","O","N","C","A","T","E","N","A","T","E">>,
    <<"m","e","a","n">> }

GroupIds == {
    <<"a","-","b">>,
    <<"a","_","b">>,
    <<"x">>,
    <<"x","_","o","r","i","g","i","n","a","l">> }

GroupLists == UNION { [1..n -> GroupIds] : n \in 0..MaxGroups }

Files == {"f1", "f2", "f3"}
FileLists == UNION { {s \in [1..n -> Files] : \A i, j \in 1..n : s[i] = s[j] => i = j}
                     : n \in 1..MaxFiles }
Windows == {0, 3, 5, 7}

\* ------------------------------------------- init_distortion_group_merge_wf

\* line 73
SanitizedInputs(lst) == [k \in 1..Len(lst) |-> Sanitize(lst[k])]

\* lines 74-77: suffix-major list of name + suffix
InputNames(sanitized) ==
    [i \in 1..(7 * Len(sanitized)) |->
        sanitized[((i - 1) % Len(sanitized)) + 1]
            \o Suffixes[((i - 1) \div Len(sanitized)) + 1]]

\* lines 96-106: the seven connections of one loop iteration
GroupConnections(input_name, port) ==
    { [field |-> input_name \o Suffixes[s], dst |-> MergeNode[s], port |-> port]
        : s \in Streams }

\* line 108
IsAverage == Lower(merging_strategy) = average

\* line 113
IsConcat == StartsWith(merging_strategy, concat)

\* lines 117-122
MergerConnections ==
    { <<MergeNode[s], "out", "distortion_merger", MergerPort[s]>>
        : s \in Streams \ {ORIGINAL_BVEC} }

\* lines 72-91
CreateNodes ==
    /\ pc = "dgm_start"
    /\ sanitized_inputs' = SanitizedInputs(inputs_list)
    /\ input_names' = InputNames(SanitizedInputs(inputs_list))
    /\ nodes' = {"inputnode", "outputnode"} \cup {MergeNode[s] : s \in Streams}
    /\ input_num' = 0
    /\ pc' = "dgm_fanin"
    /\ UNCHANGED <<error, edges, fanin, merging_strategy, inputs_list,
                   undefined_slot, distortion_merger, dwi_files,
                   dwi_denoise_window, denoise_before_combining,
                   combine_all_dwis, node_inputs, outputs, running, done,
                   denoised>>

\* lines 94-106, one iteration
ConnectGroup ==
    /\ pc = "dgm_fanin"
    /\ input_num < Len(sanitized_inputs)
    /\ fanin' = fanin \cup GroupConnections(sanitized_inputs[input_num + 1],
                                            input_num + 1)
    /\ input_num' = input_num + 1
    /\ UNCHANGED <<pc, error, nodes, edges, merging_strategy, inputs_list,
                   undefined_slot, sanitized_inputs, input_names,
                   distortion_merger, dwi_files, dwi_denoise_window,
                   denoise_before_combining, combine_all_dwis, node_inputs,
                   outputs, running, done, denoised>>

\* lines 108-114
SelectStrategy ==
    /\ pc = "dgm_fanin"
    /\ input_num = Len(sanitized_inputs)
    /\ \/ /\ IsAverage
          /\ distortion_merger' = "AveragePEPairs"
          /\ nodes' = nodes \cup {"distortion_merger"}
          /\ edges' = edges \cup {<<"merge_original_bvec", "out",
                                   "distortion_merger", "original_bvec_files">>}
       \/ /\ ~IsAverage
          /\ IsConcat
          /\ distortion_merger' = "MergeDWIs"
          /\ nodes' = nodes \cup {"distortion_merger"}
          /\ edges' = edges
       \/ /\ ~IsAverage
          /\ ~IsConcat
          /\ UNCHANGED <<distortion_merger, nodes, edges>>
    /\ pc' = "dgm_wire"
    /\ UNCHANGED <<error, fanin, merging_strategy, inputs_list, undefined_slot,
                   sanitized_inputs, input_names, input_num, dwi_files,
                   dwi_denoise_window, denoise_before_combining,
                   combine_all_dwis, node_inputs, outputs, running, done,
                   denoised>>

\* lines 116-123: the list names distortion_merger, which no branch bound
ConnectMerger ==
    /\ pc = "dgm_wire"
    /\ \/ /\ distortion_merger = Unbound
          /\ error' = "UnboundLocalError"
          /\ pc' = "raised"
          /\ edges' = edges
       \/ /\ distortion_merger # Unbound
          /\ edges' = edges \cup MergerConnections
          /\ pc' = "dgm_derivatives"
          /\ error' = error
    /\ UNCHANGED <<nodes, fanin, merging_strategy, inputs_list, undefined_slot,
                   sanitized_inputs, input_names, input_num, distortion_merger,
                   dwi_files, dwi_denoise_window, denoise_before_combining,
                   combine_all_dwis, node_inputs, outputs, running, done,
                   denoised>>

\* lines 126-150
CreateDerivativeNodes ==
    /\ pc = "dgm_derivatives"
    /\ nodes' = nodes \cup {"gtab_t1", "t1_dice_calc", "gradient_plot",
                            "ds_report_gradients", "dwi_derivatives_wf",
                            "series_qc", "ds_series_qc"}
    /\ pc' = "dgm_connect"
    /\ UNCHANGED <<error, edges, fanin, merging_strategy, inputs_list,
                   undefined_slot, sanitized_inputs, input_names, input_num,
                   distortion_merger, dwi_files, dwi_denoise_window,
                   denoise_before_combining, combine_all_dwis, node_inputs,
                   outputs, running, done, denoised>>

\* lines 152-185: the argument list is evaluated before workflow.connect is
\* called; its seventh tuple (line 161) names transform_dwis_t1, which is
\* neither a local, a parameter, a module global nor a builtin, so the
\* evaluation raises NameError and no connection of the list is made.
\* Lines 187-192 are never reached.
ConnectDerivatives ==
    /\ pc = "dgm_connect"
    /\ error' = "NameError"
    /\ pc' = "raised"
    /\ UNCHANGED <<nodes, edges, fanin, merging_strategy, inputs_list,
                   undefined_slot, sanitized_inputs, input_names, input_num,
                   distortion_merger, dwi_files, dwi_denoise_window,
                   denoise_before_combining, combine_all_dwis, node_inputs,
                   outputs, running, done, denoised>>

SlotChoices(lst) == {NoSlot} \cup ((1..Len(lst)) \X Streams)

InitDGM ==
    /\ pc = "dgm_start"
    /\ error = ""
    /\ nodes = {}
    /\ edges = {}
    /\ fanin = {}
    /\ merging_strategy \in Strategies
    /\ inputs_list \in GroupLists
    /\ undefined_slot \in SlotChoices(inputs_list)
    /\ sanitized_inputs = <<>>
    /\ input_names = <<>>
    /\ input_num = 0
    /\ distortion_merger = Unbound
    /\ dwi_files = <<>>
    /\ dwi_denoise_window = 0
    /\ denoise_before_combining = FALSE
    /\ combine_all_dwis = FALSE
    /\ node_inputs = <<>>
    /\ outputs = <<>>
    /\ running = {}
    /\ done = {}
    /\ denoised = {}

NextDGM ==
    \/ CreateNodes
    \/ ConnectGroup
    \/ SelectStrategy
    \/ ConnectMerger
    \/ CreateDerivativeNodes
    \/ ConnectDerivatives

SpecDGM == InitDGM /\ [][NextDGM]_vars

\* ------------------------------------------------ init_merge_and_denoise_wf

\* an image file: the input files it was made from, in order
Raw(f) == [files |-> <<f>>, denoised |-> FALSE, kind |-> "dwi"]

\* line 94: inputnode.inputs.dwi_files = dwi_files
RawImages == [i \in 1..Len(dwi_files) |-> Raw(dwi_files[i])]

\* DWIDenoise (lines 105-108): out_file and noise of one in_file
DWIDenoiseOutFile(img) == [img EXCEPT !.denoised = TRUE]
DWIDenoiseNoise(img) == [img EXCEPT !.kind = "noise"]

RECURSIVE ConcatFiles(_)
ConcatFiles(imgs) ==
    IF imgs = <<>> THEN <<>> ELSE Head(imgs).files \o ConcatFiles(Tail(imgs))

\* MergeDWIs (line 101): one file made of its dwi_files, in their order
MergeDWIsOut(imgs, kind) ==
    << [files |-> ConcatFiles(imgs),
        denoised |-> \A i \in 1..Len(imgs) : imgs[i].denoised,
        kind |-> kind] >>

\* a non-negative window taken for a request to denoise
DenoiseRequested_NonNegative == dwi_denoise_window >= 0

\* line 104
DenoiseRequested == dwi_denoise_window > 0

\* the merge fed from inputnode, as in the two other branches
DenoiseBeforeConnections_RawToMerge ==
    { <<"inputnode", "dwi_files", "denoise", "in_file">>,
      <<"inputnode", "dwi_files", "merge_dwis", "dwi_files">>,
      <<"denoise", "noise", "outputnode", "noise_image">>,
      <<"merge_dwis", "out_dwi", "outputnode", "merged_image">>,
      <<"merge_dwis", "out_bval", "outputnode", "merged_bval">>,
      <<"merge_dwis", "out_bvec", "outputnode", "merged_bvec">> }

\* lines 110-117
DenoiseBeforeConnections ==
    { <<"inputnode", "dwi_files", "denoise", "in_file">>,
      <<"denoise", "out_file", "merge_dwis", "dwi_files">>,
      <<"denoise", "noise", "outputnode", "noise_image">>,
      <<"merge_dwis", "out_dwi", "outputnode", "merged_image">>,
      <<"merge_dwis", "out_bval", "outputnode", "merged_bval">>,
      <<"merge_dwis", "out_bvec", "outputnode", "merged_bvec">> }

\* lines 119-126
DenoiseAfterConnections ==
    { <<"inputnode", "dwi_files", "merge_dwis", "dwi_files">>,
      <<"merge_dwis", "out_dwi", "denoise", "in_file">>,
      <<"denoise", "noise", "outputnode", "noise_image">>,
      <<"denoise", "out_file", "outputnode", "merged_image">>,
      <<"merge_dwis", "out_bval", "outputnode", "merged_bval">>,
      <<"merge_dwis", "out_bvec", "outputnode", "merged_bvec">> }

\* lines 128-133
NoDenoiseConnections ==
    { <<"inputnode", "dwi_files", "merge_dwis", "dwi_files">>,
      <<"merge_dwis", "out_dwi", "outputnode", "merged_image">>,
      <<"merge_dwis", "out_bval", "outputnode", "merged_bval">>,
      <<"merge_dwis", "out_bvec", "outputnode", "merged_bvec">> }

\* lines 90-102; combine_all_dwis is not read here or anywhere below
BuildMergeNodes ==
    /\ pc = "mad_start"
    /\ nodes' = {"inputnode", "outputnode", "merge_dwis"}
    /\ node_inputs' = (<<"inputnode", "dwi_files">> :> RawImages)
    /\ edges' = {<<"inputnode", "dwi_files", "merge_dwis", "original_files">>}
    /\ pc' = "mad_branch"
    /\ UNCHANGED <<error, fanin, merging_strategy, inputs_list, undefined_slot,
                   sanitized_inputs, input_names, input_num, distortion_merger,
                   dwi_files, dwi_denoise_window, denoise_before_combining,
                   combine_all_dwis, outputs, running, done, denoised>>

\* lines 104-108
CreateDenoise ==
    /\ pc = "mad_branch"
    /\ DenoiseRequested
    /\ nodes' = nodes \cup {"denoise"}
    /\ pc' = "mad_denoise"
    /\ UNCHANGED <<error, edges, fanin, merging_strategy, inputs_list,
                   undefined_slot, sanitized_inputs, input_names, input_num,
                   distortion_merger, dwi_files, dwi_denoise_window,
                   denoise_before_combining, combine_all_dwis, node_inputs,
                   outputs, running, done, denoised>>

\* lines 109-117
ConnectDenoiseBefore ==
    /\ pc = "mad_denoise"
    /\ denoise_before_combining
    /\ edges' = edges \cup DenoiseBeforeConnections
    /\ pc' = "mad_return"
    /\ UNCHANGED <<error, nodes, fanin, merging_strategy, inputs_list,
                   undefined_slot, sanitized_inputs, input_names, input_num,
                   distortion_merger, dwi_files, dwi_denoise_window,
                   denoise_before_combining, combine_all_dwis, node_inputs,
                   outputs, running, done, denoised>>

\* lines 118-126
ConnectDenoiseAfter ==
    /\ pc = "mad_denoise"
    /\ ~denoise_before_combining
    /\ edges' = edges \cup DenoiseAfterConnections
    /\ pc' = "mad_return"
    /\ UNCHANGED <<error, nodes, fanin, merging_strategy, inputs_list,
                   undefined_slot, sanitized_inputs, input_names, input_num,
                   distortion_merger, dwi_files, dwi_denoise_window,
                   denoise_before_combining, combine_all_dwis, node_inputs,
                   outputs, running, done, denoised>>

\* lines 127-133
ConnectNoDenoise ==
    /\ pc = "mad_branch"
    /\ ~DenoiseRequested
    /\ edges' = edges \cup NoDenoiseConnections
    /\ pc' = "mad_return"
    /\ UNCHANGED <<error, nodes, fanin, merging_strategy, inputs_list,
                   undefined_slot, sanitized_inputs, input_names, input_num,
                   distortion_merger, dwi_files, dwi_denoise_window,
                   denoise_before_combining, combine_all_dwis, node_inputs,
                   outputs, running, done, denoised>>

\* line 135
ReturnWorkflow ==
    /\ pc = "mad_return"
    /\ pc' = "returned"
    /\ UNCHANGED <<error, nodes, edges, fanin, merging_strategy, inputs_list,
                   undefined_slot, sanitized_inputs, input_names, input_num,
                   distortion_merger, dwi_files, dwi_denoise_window,
                   denoise_before_combining, combine_all_dwis, node_inputs,
                   outputs, running, done, denoised>>

\* ---------------------------------------------- evaluation of the workflow
\* The returned graph is run by the workflow engine: a node starts once every
\* node it is connected from has finished, and then reads the connected
\* outputs; a MapNode runs its interface once per item of its iterfield, the
\* items in any order.

InEdges(n) == {e \in edges : e[3] = n}
Predecessors(n) == {e[1] : e \in InEdges(n)}
Delivered(n) == {e \in InEdges(n) : <<e[1], e[2]>> \in DOMAIN outputs}

StartNode(n) ==
    /\ pc = "returned"
    /\ n \in nodes \ (running \cup done)
    /\ Predecessors(n) \subseteq done
    /\ node_inputs' =
         [p \in DOMAIN node_inputs \cup {<<n, e[4]>> : e \in Delivered(n)} |->
            IF \E e \in Delivered(n) : <<n, e[4]>> = p
            THEN LET e == CHOOSE d \in Delivered(n) : <<n, d[4]>> = p
                 IN  outputs[<<e[1], e[2]>>]
            ELSE node_inputs[p]]
    /\ running' = running \cup {n}
    /\ UNCHANGED <<pc, error, nodes, edges, fanin, merging_strategy,
                   inputs_list, undefined_slot, sanitized_inputs, input_names,
                   input_num, distortion_merger, dwi_files, dwi_denoise_window,
                   denoise_before_combining, combine_all_dwis, outputs, done,
                   denoised>>

\* niu.IdentityInterface (lines 92-99): every set field is passed through
FinishIdentity(n) ==
    /\ n \in {"inputnode", "outputnode"}
    /\ n \in running
    /\ outputs' =
         [p \in DOMAIN outputs \cup {q \in DOMAIN node_inputs : q[1] = n} |->
            IF p[1] = n THEN node_inputs[p] ELSE outputs[p]]
    /\ running' = running \ {n}
    /\ done' = done \cup {n}
    /\ UNCHANGED <<pc, error, nodes, edges, fanin, merging_strategy,
                   inputs_list, undefined_slot, sanitized_inputs, input_names,
                   input_num, distortion_merger, dwi_files, dwi_denoise_window,
                   denoise_before_combining, combine_all_dwis, node_inputs,
                   denoised>>

\* the denoise MapNode (line 105, iterfield='in_file'): one item
DenoiseItem(i) ==
    /\ "denoise" \in running
    /\ i \in (1..Len(node_inputs[<<"denoise", "in_file">>])) \ denoised
    /\ denoised' = denoised \cup {i}
    /\ UNCHANGED <<pc, error, nodes, edges, fanin, merging_strategy,
                   inputs_list, undefined_slot, sanitized_inputs, input_names,
                   input_num, distortion_merger, dwi_files, dwi_denoise_window,
                   denoise_before_combining, combine_all_dwis, node_inputs,
                   outputs, running, done>>

\* the denoise MapNode: all items processed, the lists are its outputs
FinishDenoise ==
    /\ "denoise" \in running
    /\ denoised = 1..Len(node_inputs[<<"denoise", "in_file">>])
    /\ LET in_file == node_inputs[<<"denoise", "in_file">>]
       IN  outputs' = outputs
             @@ (<<"denoise", "out_file">> :>
                    [i \in 1..Len(in_file) |-> DWIDenoiseOutFile(in_file[i])])
             @@ (<<"denoise", "noise">> :>
                    [i \in 1..Len(in_file) |-> DWIDenoiseNoise(in_file[i])])
    /\ running' = running \ {"denoise"}
    /\ done' = done \cup {"denoise"}
    /\ UNCHANGED <<pc, error, nodes, edges, fanin, merging_strategy,
                   inputs_list, undefined_slot, sanitized_inputs, input_names,
                   input_num, distortion_merger, dwi_files, dwi_denoise_window,
                   denoise_before_combining, combine_all_dwis, node_inputs,
                   denoised>>

\* the merge_dwis node (line 101)
FinishMergeDWIs ==
    /\ "merge_dwis" \in running
    /\ LET imgs == node_inputs[<<"merge_dwis", "dwi_files">>]
       IN  outputs' = outputs
             @@ (<<"merge_dwis", "out_dwi">> :> MergeDWIsOut(imgs, "dwi"))
             @@ (<<"merge_dwis", "out_bval">> :> MergeDWIsOut(imgs, "bval"))
             @@ (<<"merge_dwis", "out_bvec">> :> MergeDWIsOut(imgs, "bvec"))
    /\ running' = running \ {"merge_dwis"}
    /\ done' = done \cup {"merge_dwis"}
    /\ UNCHANGED <<pc, error, nodes, edges, fanin, merging_strategy,
                   inputs_list, undefined_slot, sanitized_inputs, input_names,
                   input_num, distortion_merger, dwi_files, dwi_denoise_window,
                   denoise_before_combining, combine_all_dwis, node_inputs,
                   denoised>>

InitMAD ==
    /\ pc = "mad_start"
    /\ error = ""
    /\ nodes = {}
    /\ edges = {}
    /\ fanin = {}
    /\ merging_strategy = <<>>
    /\ inputs_list = <<>>
    /\ undefined_slot = NoSlot
    /\ sanitized_inputs = <<>>
    /\ input_names = <<>>
    /\ input_num = 0
    /\ distortion_merger = Unbound
    /\ dwi_files \in FileLists
    /\ dwi_denoise_window \in Windows
    /\ denoise_before_combining \in BOOLEAN
    /\ combine_all_dwis \in BOOLEAN
    /\ node_inputs = <<>>
    /\ outputs = <<>>
    /\ running = {}
    /\ done = {}
    /\ denoised = {}

NextMAD ==
    \/ BuildMergeNodes
    \/ CreateDenoise
    \/ ConnectDenoiseBefore
    \/ ConnectDenoiseAfter
    \/ ConnectNoDenoise
    \/ ReturnWorkflow
    \/ \E n \in nodes : StartNode(n)
    \/ \E n \in nodes : FinishIdentity(n)
    \/ \E i \in 1..Len(dwi_files) : DenoiseItem(i)
    \/ FinishDenoise
    \/ FinishMergeDWIs

SpecMAD == InitMAD /\ [][NextMAD]_vars

\* ------------------------------------------------------------------ claims

\* the selector as the specification reads it: letter case ignored
SaysAverage == Lower(merging_strategy) = average
SaysConcat == StartsWith(Lower(merging_strategy), concat)

BuilderEnded == pc \in {"returned", "raised"}
StrategyChosen == pc \in {"dgm_wire", "dgm_derivatives", "dgm_connect", "raised"}
MergeNodeBuilt == "merge_dwis" \in nodes \/ "distortion_merger" \in nodes

\* the slot {g}_<stream> of the k-th group of inputs_list
SlotName(k, s) == Sanitize(inputs_list[k]) \o Suffixes[s]
\* the (group, stream) pairs whose artifact arrives in inputnode field f
SlotOwners(f) ==
    {ks \in (1..Len(inputs_list)) \X Streams : SlotName(ks[1], ks[2]) = f}
\* the ports of the Merge node of stream s that are connected
ConnectedPorts(s) == {c.port : c \in {d \in fanin : d.dst = MergeNode[s]}}

\* C1: with denoise_before_combining set and combine_all_dwis not set,
\* init_merge_and_denoise_wf builds no merge node, returns no workflow and
\* leaves with a ConfigError.
C1_ConfigErrorBeforeMerge ==
    (denoise_before_combining /\ ~combine_all_dwis) =>
        /\ ~MergeNodeBuilt
        /\ pc # "returned"
        /\ BuilderEnded => error = "ConfigError"

\* C2: every case variant of "average" selects AveragePEPairs and every
\* string beginning with "concat" in any letter case selects MergeDWIs.
C2_SelectorIgnoresCase ==
    StrategyChosen =>
        /\ SaysAverage => distortion_merger = "AveragePEPairs"
        /\ SaysConcat => distortion_merger = "MergeDWIs"

\* C3: a strategy that is neither "average" nor begins with "concat" makes
\* the builder fail with a ConfigError, with no merge node wired.
C3_UnknownStrategyConfigError ==
    (~SaysAverage /\ ~SaysConcat) =>
        /\ pc # "returned"
        /\ edges \cap MergerConnections = {}
        /\ BuilderEnded => error = "ConfigError"

\* C4: "average" with fewer than two groups fails with a ValidationError and
\* the merger never produces a dataset.
C4_AverageNeedsTwoGroups ==
    (SaysAverage /\ Len(inputs_list) < 2) =>
        /\ "distortion_merger" \notin done
        /\ BuilderEnded => error = "ValidationError"

\* C5: a group with one of its seven slots undefined makes the run fail with
\* a ValidationError, and the merge node never executes.
C5_UndefinedSlotValidationError ==
    (undefined_slot # NoSlot /\ distortion_merger # Unbound) =>
        /\ "distortion_merger" \notin running \cup done
        /\ BuilderEnded => error = "ValidationError"

\* C6: for pairwise distinct group identifiers, once the merger is wired,
\* each of the seven Merge nodes has exactly the ports 1..N connected, port k
\* from a slot that carries the artifact of the k-th group and of no other
\* (group, stream), and each sequence the merger consumes comes from the
\* Merge node of its stream.
C6_FanInKeepsGroupOrder ==
    ( /\ \A i, j \in 1..Len(inputs_list) : inputs_list[i] = inputs_list[j] => i = j
      /\ MergerConnections \subseteq edges ) =>
        \A s \in Streams :
            /\ ConnectedPorts(s) = 1..Len(inputs_list)
            /\ \A c \in fanin : c.dst = MergeNode[s] => SlotOwners(c.field) = {<<c.port, s>>}

\* C7: when the builder has ended with a merger selected, each of the
\* declared outputs merged_image, merged_bval, merged_bvec and merged_qc of
\* outputnode is connected from a node of the graph.
C7_DeclaredOutputsHaveProducers ==
    (BuilderEnded /\ distortion_merger # Unbound) =>
        \A f \in {"merged_image", "merged_bval", "merged_bvec", "merged_qc"} :
            \E e \in edges : e[3] = "outputnode" /\ e[4] = f

\* C9: when the builder has ended with a merger selected, series_qc is
\* connected from t1_dice_calc's dice_score, and a run in which the dice
\* score was never computed has failed with MissingInputError and assembled
\* no series QC record.
C9_SeriesQCNeedsDice ==
    (BuilderEnded /\ distortion_merger # Unbound) =>
        /\ <<"t1_dice_calc", "outputnode.dice_score", "series_qc", "t1_dice_score">>
               \in edges
        /\ "t1_dice_calc" \notin done =>
               ("series_qc" \notin done /\ error = "MissingInputError")

\* C8: with dwi_denoise_window > 0 and denoise_before_combining, merge_dwis
\* has not started unless the denoise node has finished with every file of
\* dwi_files processed, and the dwi_files it was handed are the denoised
\* files, in the order of the input.
C8_MergeAfterEveryDenoise ==
    (dwi_denoise_window > 0 /\ denoise_before_combining) =>
        ("merge_dwis" \in running \cup done =>
            /\ "denoise" \in done
            /\ denoised = 1..Len(dwi_files)
            /\ node_inputs[<<"merge_dwis", "dwi_files">>] =
                   [i \in 1..Len(dwi_files) |-> DWIDenoiseOutFile(Raw(dwi_files[i]))])

C8_Witness ==
    /\ dwi_denoise_window > 0
    /\ denoise_before_combining
    /\ Len(dwi_files) >= 2
    /\ "merge_dwis" \in done

\* C10: with dwi_denoise_window = 0 the workflow has no denoise node and no
\* connection from or to one, merge_dwis is handed the raw dwi_files, the
\* merged outputs of outputnode are those of merge_dwis, and no noise_image
\* is produced.
C10_ZeroWindowSkipsDenoise ==
    (dwi_denoise_window = 0) =>
        /\ "denoise" \notin nodes
        /\ \A e \in edges : e[1] # "denoise" /\ e[3] # "denoise"
        /\ "merge_dwis" \in running \cup done =>
               node_inputs[<<"merge_dwis", "dwi_files">>] = RawImages
        /\ "outputnode" \in done =>
               /\ outputs[<<"outputnode", "merged_image">>] =
                      outputs[<<"merge_dwis", "out_dwi">>]
               /\ outputs[<<"outputnode", "merged_bval">>] =
                      outputs[<<"merge_dwis", "out_bval">>]
               /\ outputs[<<"outputnode", "merged_bvec">>] =
                      outputs[<<"merge_dwis", "out_bvec">>]
               /\ ~outputs[<<"outputnode", "merged_image">>][1].denoised
               /\ <<"outputnode", "noise_image">> \notin DOMAIN outputs

C10_Witness ==
    /\ dwi_denoise_window = 0
    /\ denoise_before_combining
    /\ "outputnode" \in done

====
